---- MODULE Spec2Model ----
(***************************************************************************)
(* A model of the CWL lint engine (lintCWLContent and its six rules).      *)
(*                                                                         *)
(* A text is the sequence of its lines (content.split('\n')); a line is a  *)
(* record                                                                  *)
(*    [kind, indent, key, quoted, tok]                                     *)
(*   kind   "blank"   a whitespace-only line (indent = number of spaces)   *)
(*          "comment" a line starting with '#' in column 0                 *)
(*          "field"   <indent spaces><key>: <tok>   (key in double quotes  *)
(*                    when quoted)                                         *)
(*          "scalar"  <indent spaces><tok>          (no colon)             *)
(*          "docsep"  the document separator ---                           *)
(*          "bad"     a line on which the YAML scanner fails; indent is    *)
(*                    the column of the reported mark                      *)
(* Names (keys, scalar tokens) are atomic strings.  A diagnostic message   *)
(* is the sequence of the parts of its template literal.                   *)
(***************************************************************************)
EXTENDS Integers, Sequences, FiniteSets, TLC

VARIABLES content, pc, parsed, errors, exc, ran, lastIndex, foPos, foErrors,
          args, pos

\* args and pos are the arguments and the return value of a direct call of
\* findFieldPosition; a lint call leaves them alone
vars == <<content, pc, parsed, errors, exc, ran, lastIndex, foPos, foErrors,
          args, pos>>

----------------------------------------------------------------------------
(* Lines *)

Line(kind, indent, key, quoted, tok) ==
    [kind |-> kind, indent |-> indent, key |-> key, quoted |-> quoted, tok |-> tok]

Blank == Line("blank", 0, "", FALSE, "")
BlankSpaces == Line("blank", 4, "", FALSE, "")
Comment == Line("comment", 0, "", FALSE, "#")
DocSep == Line("docsep", 0, "", FALSE, "---")
BadLine(col) == Line("bad", col, "", FALSE, "")
Scalar(tok) == Line("scalar", 0, "", FALSE, tok)
F(indent, key, tok) == Line("field", indent, key, FALSE, tok)
Q(indent, key, tok) == Line("field", indent, key, TRUE, tok)

----------------------------------------------------------------------------
(* Values of the document tree, as JavaScript sees them *)

Val(t, v, kids) == [t |-> t, v |-> v, kids |-> kids]
Undefined == Val("undefined", "", <<>>)
Null == Val("null", "", <<>>)
Str(s) == Val("str", s, <<>>)
Num(s) == Val("num", s, <<>>)
Bool(s) == Val("bool", s, <<>>)
Entry(k, val) == [k |-> k, val |-> val]
Map(entries) == Val("map", "", entries)
\* an array: kids are its own enumerable properties "0", "1", ...; v is its
\* string form (Array.prototype.join), used when it is coerced to a key
Arr(join, entries) == Val("seq", join, entries)

\* the value a scalar or flow token resolves to (YAML core schema)
Resolve(tok) ==
    CASE tok \in {"", "~", "null"} -> Null
      [] tok \in {"true", "false"} -> Bool(tok)
      [] tok = "0" -> Num("0")
      [] tok = "1" -> Num("1")
      [] tok = "5" -> Num("5")
      [] tok = "1.0" -> Num("1")
      [] tok = "''" -> Str("")
      [] tok = "{}" -> Map(<<>>)
      [] tok = "[]" -> Arr("", <<>>)
      [] tok = "[a, b]" -> Arr("a,b", <<Entry("0", Str("a")), Entry("1", Str("b"))>>)
      [] tok = "[Workflow]" -> Arr("Workflow", <<Entry("0", Str("Workflow"))>>)
      [] tok = "{type: string}" -> Map(<<Entry("type", Str("string"))>>)
      [] tok = "{foo: {type: string}}" ->
            Map(<<Entry("foo", Map(<<Entry("type", Str("string"))>>))>>)
      [] tok = "{foo: string}" -> Map(<<Entry("foo", Str("string"))>>)
      [] OTHER -> Str(tok)

----------------------------------------------------------------------------
(* yaml.load on the block subset: field lines nested by indentation *)

ParseOk(doc) ==
    [ok |-> TRUE, doc |-> doc, hasMark |-> FALSE, line |-> 0, column |-> 0,
     reason |-> ""]
ParseFailMark(line, column, reason) ==
    [ok |-> FALSE, doc |-> Undefined, hasMark |-> TRUE, line |-> line,
     column |-> column, reason |-> reason]
ParseFailNoMark(reason) ==
    [ok |-> FALSE, doc |-> Undefined, hasMark |-> FALSE, line |-> 0,
     column |-> 0, reason |-> reason]

Indices(s) == [i \in 1..Len(s) |-> i]
ContentIdx(lines) ==
    SelectSeq(Indices(lines), LAMBDA i : lines[i].kind \in {"field", "scalar"})

HasKey(entries, k) == \E i \in 1..Len(entries) : entries[i].k = k

\* the block mapping at indentation ind that starts at the p-th content line;
\* acc holds the entries read so far.  bad = 0, or the line (1-based) at which
\* the parse fails.
RECURSIVE ParseMap(_, _, _, _, _)
ParseMap(lines, idx, p, ind, acc) ==
    IF p > Len(idx) \/ lines[idx[p]].indent < ind
    THEN [bad |-> 0, reason |-> "", entries |-> acc, next |-> p]
    ELSE LET ln == lines[idx[p]] IN
         IF ln.kind # "field" \/ ln.indent > ind
         THEN [bad |-> idx[p], reason |-> "bad indentation of a mapping entry",
               entries |-> acc, next |-> p]
         ELSE IF HasKey(acc, ln.key)
         THEN [bad |-> idx[p], reason |-> "duplicated mapping key",
               entries |-> acc, next |-> p]
         ELSE IF ln.tok = "" /\ p < Len(idx) /\ lines[idx[p + 1]].indent > ind
         THEN LET child == ParseMap(lines, idx, p + 1, lines[idx[p + 1]].indent, <<>>) IN
              IF child.bad # 0 THEN child
              ELSE ParseMap(lines, idx, child.next, ind,
                            Append(acc, Entry(ln.key, Map(child.entries))))
         ELSE ParseMap(lines, idx, p + 1, ind,
                       Append(acc, Entry(ln.key, Resolve(ln.tok))))

Min(S) == CHOOSE x \in S : \A y \in S : x <= y

yamlLoad(lines) ==
    LET bads == {i \in 1..Len(lines) : lines[i].kind = "bad"}
        idx == ContentIdx(lines)
        seps == {i \in 1..Len(lines) :
                    /\ lines[i].kind = "docsep"
                    /\ \E j \in 1..Len(idx) : idx[j] < i
                    /\ \E j \in 1..Len(idx) : idx[j] > i}
    IN  IF bads # {}
        THEN ParseFailMark(Min(bads) - 1, lines[Min(bads)].indent,
                           "unexpected end of the stream within a flow collection")
        ELSE IF seps # {}
        THEN ParseFailNoMark("expected a single document in the stream, but found more")
        ELSE IF idx = <<>> THEN ParseOk(Undefined)
        ELSE IF lines[idx[1]].kind = "scalar"
        THEN IF Len(idx) = 1 THEN ParseOk(Resolve(lines[idx[1]].tok))
             ELSE ParseFailMark(idx[2] - 1, lines[idx[2]].indent,
                                "end of the stream or a document separator is expected")
        ELSE LET r == ParseMap(lines, idx, 1, lines[idx[1]].indent, <<>>) IN
             IF r.bad # 0
             THEN ParseFailMark(r.bad - 1, lines[r.bad].indent, r.reason)
             ELSE IF r.next <= Len(idx)
             THEN ParseFailMark(idx[r.next] - 1, lines[idx[r.next]].indent,
                                "end of the stream or a document separator is expected")
             ELSE ParseOk(Map(r.entries))

----------------------------------------------------------------------------
(* JavaScript's view of a value *)

Nullish(v) == v.t \in {"null", "undefined"}

\* !v is false
Truthy(v) ==
    CASE v.t \in {"map", "seq"} -> TRUE
      [] v.t = "str" -> v.v # ""
      [] v.t = "num" -> v.v # "0"
      [] v.t = "bool" -> v.v = "true"
      [] OTHER -> FALSE

\* typeof v === 'object'
TypeofObject(v) == v.t \in {"map", "seq", "null"}

\* obj.key, for an obj that is neither null nor undefined
GetProp(obj, key) ==
    IF obj.t \in {"map", "seq"} /\ HasKey(obj.kids, key)
    THEN obj.kids[CHOOSE i \in 1..Len(obj.kids) : obj.kids[i].k = key].val
    ELSE Undefined

\* Object.keys(obj): the keys in insertion order (no text here has an
\* integer-like key, which JavaScript would list first)
ObjectKeys(obj) == [i \in 1..Len(obj.kids) |-> obj.kids[i].k]

\* the property key a value is coerced to in obj[v]
ToPropertyKey(v) ==
    CASE v.t \in {"str", "num", "bool", "seq"} -> v.v
      [] v.t = "null" -> "null"
      [] v.t = "undefined" -> "undefined"
      [] OTHER -> "[object Object]"

\* v === s for a string s
StrictEqualsString(v, s) == v.t = "str" /\ v.v = s

----------------------------------------------------------------------------
(* Configuration *)

fieldOrderConfig ==
    [CommandLineTool |->
        <<"cwlVersion", "class", "label", "doc", "$namespaces",
          "requirements", "hints", "inputs", "outputs",
          "baseCommand", "arguments", "stdout", "stderr">>,
     ExpressionTool |->
        <<"cwlVersion", "class", "doc", "$namespaces",
          "requirements", "hints", "inputs", "outputs", "expression">>,
     Workflow |->
        <<"cwlVersion", "class", "label", "doc", "$namespaces",
          "requirements", "hints", "inputs", "outputs", "steps">>]

blankLineConfig ==
    {"$namespaces", "requirements", "hints", "inputs", "outputs",
     "baseCommand", "arguments", "expression", "steps"}

ValidClasses == {"Workflow", "CommandLineTool", "ExpressionTool"}

\* names every object inherits from Object.prototype: fieldOrderConfig[name]
\* is then a truthy value that is no array
ObjectPrototypeNames ==
    {"constructor", "toString", "valueOf", "hasOwnProperty", "__proto__"}

----------------------------------------------------------------------------
(* Regular expressions built from a name *)

\* names that are no valid regular expression source: new RegExp throws
RegexInvalidNames == {"a(b"}
\* names whose pattern matches no line: a leading $ asserts the end of input
RegexNeverMatchNames == {"$namespaces"}
\* names with a character outside [a-zA-Z0-9_$\-]
NonFieldCharNames == {"a(b"}

\* new RegExp(`^\s*${name}:`).test(line), for a name that is a valid pattern
RegexMatchesField(line, name) ==
    /\ line.kind = "field"
    /\ ~line.quoted
    /\ line.key = name
    /\ name \notin RegexNeverMatchNames

\* line.match(/^\s*([a-zA-Z0-9_$\-]+):/)
FieldPatternMatch(line) ==
    /\ line.kind = "field"
    /\ ~line.quoted
    /\ line.key \notin NonFieldCharNames

\* line.trim() === ''
IsBlank(line) == line.kind = "blank"

\* line.match(/^\S/)
StartsNonSpace(line) ==
    \/ line.kind \in {"comment", "docsep"}
    \/ line.kind \in {"field", "scalar", "bad"} /\ line.indent = 0

\* line.includes(s), for an atomic name s
LineIncludes(line, s) ==
    line.kind \in {"field", "scalar"} /\ (line.key = s \/ line.tok = s)

----------------------------------------------------------------------------
(* Position resolver *)

\* the backward scan from line i (1-based) for a line containing ctx
RECURSIVE ContextFound(_, _, _)
ContextFound(lines, j, ctx) ==
    IF j < 1 THEN FALSE
    ELSE IF LineIncludes(lines[j], ctx) THEN TRUE
    ELSE IF StartsNonSpace(lines[j]) THEN FALSE
    ELSE ContextFound(lines, j - 1, ctx)

findFieldPosition(lines, fieldName, parentContext) ==
    LET hits == {i \in 1..Len(lines) :
                    /\ RegexMatchesField(lines[i], fieldName)
                    /\ (parentContext # "" => ContextFound(lines, i - 1, parentContext))}
    IN  IF hits = {} THEN [line |-> 0, character |-> 0]
        ELSE [line |-> Min(hits) - 1, character |-> lines[Min(hits)].indent]

----------------------------------------------------------------------------
(* Diagnostics and rule results *)

Diag(message, line, character) ==
    [message |-> message, line |-> line, character |-> character]

DiagAt(message, position) == Diag(message, position.line, position.character)

NoExc == [kind |-> "none", hasMark |-> FALSE, line |-> 0, column |-> 0,
          reason |-> "", message |-> ""]
Exc(kind, message) ==
    [kind |-> kind, hasMark |-> FALSE, line |-> 0, column |-> 0,
     reason |-> "", message |-> message]
\* the YAMLException of a failed parse
ExcOfParse(r) ==
    [kind |-> "YAMLException", hasMark |-> r.hasMark, line |-> r.line,
     column |-> r.column, reason |-> r.reason, message |-> r.reason]

Returns(errs) == [thrown |-> FALSE, errs |-> errs, exc |-> NoExc]
Throws(e) == [thrown |-> TRUE, errs |-> <<>>, exc |-> e]

\* the TypeError of doc.key on a doc that is null or undefined
ReadOfNullish(doc) ==
    Exc("TypeError", IF doc.t = "null"
                     THEN "Cannot read properties of null"
                     ELSE "Cannot read properties of undefined")

----------------------------------------------------------------------------
(* The rules *)

checkVersion(doc, lines) ==
    IF Nullish(doc) THEN Throws(ReadOfNullish(doc))
    ELSE IF ~Truthy(GetProp(doc, "cwlVersion"))
    THEN Returns(<<DiagAt(<<"Missing cwlVersion field">>,
                          findFieldPosition(lines, "cwlVersion", ""))>>)
    ELSE Returns(<<>>)

InvalidClassMessage ==
    <<"Invalid class value. Must be one of: Workflow, CommandLineTool, ExpressionTool">>

\* ['Workflow', 'CommandLineTool', 'ExpressionTool'].includes(v)
ClassListIncludes(v) == v.t = "str" /\ v.v \in ValidClasses

checkClass(doc, lines) ==
    IF Nullish(doc) THEN Throws(ReadOfNullish(doc))
    ELSE IF ~Truthy(GetProp(doc, "class"))
    THEN Returns(<<DiagAt(<<"Missing class field">>,
                          findFieldPosition(lines, "class", ""))>>)
    ELSE IF ~ClassListIncludes(GetProp(doc, "class"))
    THEN Returns(<<DiagAt(InvalidClassMessage,
                          findFieldPosition(lines, "class", ""))>>)
    ELSE Returns(<<>>)

checkInputs(doc, lines) ==
    IF Nullish(doc) THEN Throws(ReadOfNullish(doc))
    ELSE IF Truthy(GetProp(doc, "inputs")) /\ ~TypeofObject(GetProp(doc, "inputs"))
    THEN Returns(<<DiagAt(<<"Inputs must be an object or array">>,
                          findFieldPosition(lines, "inputs", ""))>>)
    ELSE Returns(<<>>)

\* expectedOrder.indexOf(field), 0-based, -1 when absent
IndexOf(expectedOrder, field) ==
    IF \E i \in 1..Len(expectedOrder) : expectedOrder[i] = field
    THEN (CHOOSE i \in 1..Len(expectedOrder) : expectedOrder[i] = field) - 1
    ELSE -1

\* fieldOrderConfig[classType]: "list" with the canonical order, "inherited"
\* for a member of Object.prototype, "undefined" otherwise
LookupFieldOrder(classType) ==
    LET key == ToPropertyKey(classType) IN
    IF key \in DOMAIN fieldOrderConfig
    THEN [kind |-> "list", order |-> fieldOrderConfig[key]]
    ELSE IF key \in ObjectPrototypeNames
    THEN [kind |-> "inherited", order |-> <<>>]
    ELSE [kind |-> "undefined", order |-> <<>>]

OutOfOrderMessage(field, misplacedAfter) ==
    <<"Field '", field, "' is out of order. It should appear before '",
      misplacedAfter, "'.">>

\* field is out of order with respect to lastIndex
OutOfOrder(currentIndex, last) == currentIndex < last

\* an iteration that moves lastIndex to a flagged field's index too
FieldOrderIterationResetting(lines, expectedOrder, field, last, errs) ==
    LET currentIndex == IndexOf(expectedOrder, field) IN
    IF currentIndex = -1 THEN [lastIndex |-> last, errs |-> errs]
    ELSE IF OutOfOrder(currentIndex, last)
    THEN [lastIndex |-> currentIndex,
          errs |-> Append(errs,
                     DiagAt(OutOfOrderMessage(field, expectedOrder[last + 1]),
                            findFieldPosition(lines, field, "")))]
    ELSE [lastIndex |-> currentIndex, errs |-> errs]

\* one iteration of the loop of checkFieldOrder, on field, from the loop
\* state [lastIndex, errs]
FieldOrderIteration(lines, expectedOrder, field, last, errs) ==
    LET currentIndex == IndexOf(expectedOrder, field) IN
    IF currentIndex = -1 THEN [lastIndex |-> last, errs |-> errs]
    ELSE IF OutOfOrder(currentIndex, last)
    THEN [lastIndex |-> last,
          errs |-> Append(errs,
                     DiagAt(OutOfOrderMessage(field, expectedOrder[last + 1]),
                            findFieldPosition(lines, field, "")))]
    ELSE [lastIndex |-> currentIndex, errs |-> errs]

MoreThanOneMessage(fieldName) ==
    <<"More than one blank line before field '", fieldName, "'.">>
MissingBlankMessage(fieldName) ==
    <<"Missing blank line before field '", fieldName, "'.">>

\* the diagnostics of the loop body of checkBlankLines at line i (1-based)
BlankLineErrorsAt(lines, i) ==
    IF ~FieldPatternMatch(lines[i]) THEN <<>>
    ELSE LET fieldName == lines[i].key
             more == IF IsBlank(lines[i - 1]) /\ i >= 3 /\ IsBlank(lines[i - 2])
                     THEN <<Diag(MoreThanOneMessage(fieldName), i - 1, 0)>>
                     ELSE <<>>
             missing == IF fieldName \in blankLineConfig /\ ~IsBlank(lines[i - 1])
                        THEN <<Diag(MissingBlankMessage(fieldName), i - 1, 0)>>
                        ELSE <<>>
         IN  more \o missing

RECURSIVE BlankLineErrorsFrom(_, _)
BlankLineErrorsFrom(lines, i) ==
    IF i > Len(lines) THEN <<>>
    ELSE BlankLineErrorsAt(lines, i) \o BlankLineErrorsFrom(lines, i + 1)

checkBlankLines(doc, lines) == Returns(BlankLineErrorsFrom(lines, 2))

MissingInputFieldMessage(inputKey, field) ==
    <<"Input '", inputKey, "' is missing required '", field, "' field.">>

\* lines.findIndex(line => line.match(new RegExp(`^\s*${inputKey}:`))),
\* 0-based, -1 when no line matches
FindBaseLine(lines, inputKey) ==
    LET hits == {i \in 1..Len(lines) : RegexMatchesField(lines[i], inputKey)} IN
    IF hits = {} THEN -1 ELSE Min(hits) - 1

\* the loop of checkWorkflowInputMetadata over entries[p..], errs so far
RECURSIVE InputMetadataLoop(_, _, _, _)
InputMetadataLoop(lines, entries, p, errs) ==
    IF p > Len(entries) THEN Returns(errs)
    ELSE LET inputKey == entries[p].k
             inputValue == entries[p].val
             baseLine == FindBaseLine(lines, inputKey)
         IN
         IF ~TypeofObject(inputValue) THEN InputMetadataLoop(lines, entries, p + 1, errs)
         ELSE IF inputKey \in RegexInvalidNames
         THEN Throws(Exc("SyntaxError", "Invalid regular expression"))
         ELSE IF baseLine = -1 THEN InputMetadataLoop(lines, entries, p + 1, errs)
         ELSE IF inputValue.t = "null"
         THEN Throws(Exc("TypeError", "Cannot use 'in' operator to search for 'label' in null"))
         ELSE InputMetadataLoop(lines, entries, p + 1,
                errs
                \o (IF ~HasKey(inputValue.kids, "label")
                    THEN <<Diag(MissingInputFieldMessage(inputKey, "label"), baseLine, 0)>>
                    ELSE <<>>)
                \o (IF ~HasKey(inputValue.kids, "doc")
                    THEN <<Diag(MissingInputFieldMessage(inputKey, "doc"), baseLine, 0)>>
                    ELSE <<>>))

checkWorkflowInputMetadata(doc, lines) ==
    IF Nullish(doc) THEN Throws(ReadOfNullish(doc))
    ELSE IF ~StrictEqualsString(GetProp(doc, "class"), "Workflow")
            \/ ~TypeofObject(GetProp(doc, "inputs"))
    THEN Returns(<<>>)
    ELSE IF GetProp(doc, "inputs").t = "null"
    THEN Throws(Exc("TypeError", "Cannot convert undefined or null to object"))
    ELSE InputMetadataLoop(lines, GetProp(doc, "inputs").kids, 1, <<>>)

----------------------------------------------------------------------------
(* The lint engine: lintCWLContent *)

\* Object.values(rules): the rules in the order they are registered
RuleOrder ==
    <<"checkVersion", "checkClass", "checkInputs", "checkFieldOrder",
      "checkBlankLines", "checkWorkflowInputMetadata">>

\* where control goes when rule name has returned
After(name) ==
    LET i == CHOOSE j \in 1..Len(RuleOrder) : RuleOrder[j] = name IN
    IF i < Len(RuleOrder) THEN RuleOrder[i + 1] ELSE "done"

\* a try block around yaml.load alone
TryBlockLoadOnly == {"load"}

\* the statements inside the try block
TryBlock ==
    {"load", "checkVersion", "checkClass", "checkInputs", "checkFieldOrder",
     "fieldOrderLoop", "checkBlankLines", "checkWorkflowInputMetadata"}

\* where control goes when the statement at p throws
Handler(p) == IF p \in TryBlock THEN "catch" ELSE "escaped"

\* a catch block that takes the mark's column for the line and its line for
\* the character
CatchDiagSwapped(e) ==
    IF e.hasMark
    THEN Diag(<<"YAML parsing error: ", IF e.reason # "" THEN e.reason ELSE e.message>>,
              e.column, e.line)
    ELSE Diag(<<"YAML parsing error: ", e.message>>, 0, 0)

\* the diagnostic the catch block pushes for exception e
CatchDiag(e) ==
    IF e.hasMark
    THEN Diag(<<"YAML parsing error: ", IF e.reason # "" THEN e.reason ELSE e.message>>,
              e.line, e.column)
    ELSE Diag(<<"YAML parsing error: ", e.message>>, 0, 0)

NotLoaded == ParseOk(Undefined)

\* errors.push(...rule(cwlDoc, content)) for rule name with result r
RuleStep(name, r) ==
    IF r.thrown
    THEN /\ exc' = r.exc
         /\ pc' = Handler(pc)
         /\ UNCHANGED <<errors, ran>>
    ELSE /\ errors' = errors \o r.errs
         /\ ran' = Append(ran, name)
         /\ pc' = After(name)
         /\ UNCHANGED exc

Load ==
    /\ pc = "load"
    /\ LET r == yamlLoad(content) IN
       /\ parsed' = r
       /\ IF r.ok
          THEN pc' = RuleOrder[1] /\ UNCHANGED exc
          ELSE pc' = Handler(pc) /\ exc' = ExcOfParse(r)
    /\ UNCHANGED <<args, pos, content, errors, ran, lastIndex, foPos, foErrors>>

CheckVersion ==
    /\ pc = "checkVersion"
    /\ RuleStep("checkVersion", checkVersion(parsed.doc, content))
    /\ UNCHANGED <<args, pos, content, parsed, lastIndex, foPos, foErrors>>

CheckClass ==
    /\ pc = "checkClass"
    /\ RuleStep("checkClass", checkClass(parsed.doc, content))
    /\ UNCHANGED <<args, pos, content, parsed, lastIndex, foPos, foErrors>>

CheckInputs ==
    /\ pc = "checkInputs"
    /\ RuleStep("checkInputs", checkInputs(parsed.doc, content))
    /\ UNCHANGED <<args, pos, content, parsed, lastIndex, foPos, foErrors>>

\* checkFieldOrder up to its loop: the early return, or the loop's start
FieldOrderEnter ==
    /\ pc = "checkFieldOrder"
    /\ IF Nullish(parsed.doc)
       THEN /\ RuleStep("checkFieldOrder", Throws(ReadOfNullish(parsed.doc)))
            /\ UNCHANGED <<lastIndex, foPos, foErrors>>
       ELSE IF LookupFieldOrder(GetProp(parsed.doc, "class")).kind = "undefined"
       THEN /\ RuleStep("checkFieldOrder", Returns(<<>>))
            /\ UNCHANGED <<lastIndex, foPos, foErrors>>
       ELSE /\ pc' = "fieldOrderLoop"
            /\ lastIndex' = -1
            /\ foPos' = 1
            /\ foErrors' = <<>>
            /\ UNCHANGED <<errors, ran, exc>>
    /\ UNCHANGED <<args, pos, content, parsed>>

\* one iteration of the loop over Object.keys(doc)
FieldOrderStep ==
    /\ pc = "fieldOrderLoop"
    /\ foPos <= Len(ObjectKeys(parsed.doc))
    /\ LET expected == LookupFieldOrder(GetProp(parsed.doc, "class")) IN
       IF expected.kind = "inherited"
       THEN /\ RuleStep("checkFieldOrder",
                        Throws(Exc("TypeError", "expectedOrder.indexOf is not a function")))
            /\ UNCHANGED <<lastIndex, foPos, foErrors>>
       ELSE LET r == FieldOrderIteration(content, expected.order,
                                         ObjectKeys(parsed.doc)[foPos], lastIndex, foErrors) IN
            /\ lastIndex' = r.lastIndex
            /\ foErrors' = r.errs
            /\ foPos' = foPos + 1
            /\ UNCHANGED <<pc, errors, ran, exc>>
    /\ UNCHANGED <<args, pos, content, parsed>>

\* the loop is over: checkFieldOrder returns its errors
FieldOrderReturn ==
    /\ pc = "fieldOrderLoop"
    /\ foPos > Len(ObjectKeys(parsed.doc))
    /\ RuleStep("checkFieldOrder", Returns(foErrors))
    /\ UNCHANGED <<args, pos, content, parsed, lastIndex, foPos, foErrors>>

CheckBlankLines ==
    /\ pc = "checkBlankLines"
    /\ RuleStep("checkBlankLines", checkBlankLines(parsed.doc, content))
    /\ UNCHANGED <<args, pos, content, parsed, lastIndex, foPos, foErrors>>

CheckWorkflowInputMetadata ==
    /\ pc = "checkWorkflowInputMetadata"
    /\ RuleStep("checkWorkflowInputMetadata",
                checkWorkflowInputMetadata(parsed.doc, content))
    /\ UNCHANGED <<args, pos, content, parsed, lastIndex, foPos, foErrors>>

Catch ==
    /\ pc = "catch"
    /\ errors' = Append(errors, CatchDiag(exc))
    /\ pc' = "done"
    /\ UNCHANGED <<args, pos, content, parsed, exc, ran, lastIndex, foPos, foErrors>>

Next ==
    \/ Load
    \/ CheckVersion
    \/ CheckClass
    \/ CheckInputs
    \/ FieldOrderEnter
    \/ FieldOrderStep
    \/ FieldOrderReturn
    \/ CheckBlankLines
    \/ CheckWorkflowInputMetadata
    \/ Catch

----------------------------------------------------------------------------
(* The texts the engine is run on *)

\* the longest sequence of top-level fields in OrderTexts
MaxKeys == 4

\* the example of README.md, lines 58-75
ReadmeExample ==
    <<Comment, Blank,
      F(0, "cwlVersion", "v1.0"), F(0, "class", "CommandLineTool"), Blank,
      F(0, "baseCommand", "echo"), Blank,
      F(0, "inputs", ""), F(2, "message", ""), F(4, "type", "string"),
      F(4, "inputBinding", ""), F(6, "position", "1"), Blank,
      F(0, "outputs", ""), F(2, "output_file", ""), F(4, "type", "stdout"), Blank,
      F(0, "stdout", "output.txt"), Blank>>

\* test 'Should pass valid CWL file'
TestValidExample ==
    <<Blank,
      F(0, "cwlVersion", "v1.0"), F(0, "class", "CommandLineTool"),
      F(0, "baseCommand", "echo"),
      F(0, "inputs", ""), F(2, "message", ""), F(4, "type", "string"),
      F(4, "inputBinding", ""), F(6, "position", "1"),
      F(0, "outputs", ""), F(2, "output_file", ""), F(4, "type", "stdout"),
      F(0, "stdout", "output.txt"), Blank>>

\* test 'Should detect missing cwlVersion'
TestMissingVersion ==
    <<Blank,
      F(0, "class", "CommandLineTool"), F(0, "baseCommand", "echo"),
      F(0, "inputs", ""), F(2, "message", ""), F(4, "type", "string"), Blank>>

\* test 'Should detect invalid class value'
TestInvalidClass ==
    <<Blank,
      F(0, "cwlVersion", "v1.0"), F(0, "class", "InvalidClass"),
      F(0, "baseCommand", "echo"),
      F(0, "inputs", ""), F(2, "message", ""), F(4, "type", "string"), Blank>>

\* test/example.cwl
ExampleCwl ==
    <<Comment, Blank,
      F(0, "cwlVersion", "v1.0"), F(0, "class", "CommandLineTool"), Blank,
      F(0, "baseCommand", "echo"),
      F(0, "inputs", ""), F(2, "message", ""), F(4, "type", "string"),
      F(4, "inputBinding", ""), F(6, "position", "1"), Blank,
      F(0, "outputs", ""), F(2, "output_file", ""), F(4, "type", "stdout"), Blank,
      F(0, "stdout", "output.txt"), Blank>>

\* the CWL head of test/error_example.cwl, lines 1-21
ErrorExampleHead ==
    <<Comment, F(0, "cwlVersion", "1.0"), BlankSpaces, Comment, Blank,
      F(0, "class", "Workflow"), Blank,
      F(0, "baseCommand", "echo"), Blank,
      F(0, "inputs", ""), F(2, "message", ""), F(4, "type", "string"),
      F(4, "inputBinding", ""), F(6, "position", "1"), Blank,
      F(0, "outputs", ""), F(2, "output_file", ""), F(4, "type", "stdout"), Blank,
      F(0, "stdout", "output.txt"), Blank>>

\* texts that are no mapping, or no YAML
OddTexts ==
    {<<Blank>>, <<Comment, Blank>>, <<Scalar("hello"), Blank>>, <<Scalar("5")>>,
     <<Scalar("~"), Blank>>, <<Scalar("[a, b]"), Blank>>,
     <<DocSep, F(0, "class", "Workflow"), Blank>>,
     <<F(0, "class", "Workflow"), DocSep, F(0, "cwlVersion", "v1.0"), Blank>>,
     <<F(0, "cwlVersion", "v1.0"), BadLine(8), Blank>>,
     <<BadLine(0)>>,
     <<F(0, "class", "Workflow"), F(0, "inputs", ""), F(2, "foo", ""), BadLine(3)>>,
     <<F(0, "class", "Workflow"), F(2, "inputs", "{}"), Blank>>,
     <<F(0, "class", "Workflow"), Scalar("hello"), Blank>>,
     <<Scalar("hello"), F(0, "class", "Workflow"), Blank>>,
     <<F(2, "class", "Workflow"), F(0, "cwlVersion", "v1.0"), Blank>>}

\* top-level fields in any order, for each class
OrderLines(c) ==
    {F(0, "cwlVersion", "v1.0"), F(0, "class", c), F(0, "inputs", "{}"),
     F(0, "outputs", "{}"), F(0, "baseCommand", "echo"), F(0, "id", "x")}

OrderTexts ==
    UNION {UNION {{t \o <<Blank>> : t \in [1..n -> OrderLines(c)]} : n \in 1..MaxKeys}
           : c \in ValidClasses}

\* documents with each shape of cwlVersion, class and inputs
VersionChoices ==
    {<<>>, <<F(0, "cwlVersion", "v1.0")>>, <<F(0, "cwlVersion", "1.0")>>,
     <<F(0, "cwlVersion", "''")>>}

ClassTokens ==
    ValidClasses \cup {"workflow", "InvalidClass", "0", "false", "", "[Workflow]", "toString"}

ClassChoices == {<<>>} \cup {<<F(0, "class", t)>> : t \in ClassTokens}

InputsTokens ==
    {"abc", "5", "true", "0", "false", "''", "", "{}", "[a, b]",
     "{foo: {type: string}}", "{foo: string}"}

InputEntryBlocks ==
    {<<F(2, "foo", ""), F(4, "type", "string")>>,
     <<F(2, "foo", ""), F(4, "label", "x"), F(4, "doc", "y")>>,
     <<F(2, "foo", ""), F(4, "label", "x")>>,
     <<Q(2, "foo", ""), F(4, "type", "string")>>,
     <<F(2, "foo", "string")>>,
     <<F(2, "foo", "")>>,
     <<F(2, "foo", "[a, b]")>>,
     <<F(2, "foo", "{type: string}")>>,
     <<F(2, "a(b", ""), F(4, "type", "string")>>,
     <<F(2, "foo", ""), F(4, "type", "string"), F(2, "bar", ""), F(4, "doc", "y")>>}

InputsChoices ==
    {<<>>} \cup {<<F(0, "inputs", t)>> : t \in InputsTokens}
           \cup {<<F(0, "inputs", "")>> \o e : e \in InputEntryBlocks}

ShapeTexts ==
    {v \o c \o sep \o i \o <<Blank>> :
        v \in VersionChoices, c \in ClassChoices, sep \in {<<>>, <<Blank>>},
        i \in InputsChoices}

\* the lines of top-level field f in a complete document: variant says what
\* is nested under it
FieldBlock(c, f, variant) ==
    CASE f = "cwlVersion" -> <<F(0, f, "v1.0")>>
      [] f = "class" -> <<F(0, f, c)>>
      [] f = "inputs" /\ variant = "metadata" ->
            <<F(0, f, ""), F(2, "foo", ""), F(4, "label", "x"), F(4, "doc", "y"),
              F(4, "type", "string"), F(2, "bar", "string")>>
      [] f = "inputs" /\ variant = "oddkey" ->
            <<F(0, f, ""), F(2, "a(b", ""), F(4, "label", "x"), F(4, "doc", "y")>>
      [] f = "steps" /\ variant = "embedded" ->
            <<F(0, f, ""), F(2, "step1", ""), F(4, "run", ""),
              F(6, "class", "CommandLineTool"), F(6, "inputs", "{}"),
              F(6, "outputs", "{}"), F(4, "in", "{}"), F(4, "out", "[]")>>
      [] f = "hints" /\ variant = "nested" ->
            <<F(0, f, ""), F(2, "DockerRequirement", ""), F(4, "hints", "x")>>
      [] f = "outputs" /\ variant = "spaced" ->
            <<F(0, f, ""), F(2, "out1", ""), Blank, Blank, F(4, "type", "File")>>
      [] f \in {"label", "doc", "stdout", "stderr", "baseCommand", "expression"} ->
            <<F(0, f, "x")>>
      [] OTHER -> <<F(0, f, "{}")>>

RECURSIVE CompleteLines(_, _, _)
CompleteLines(c, p, variant) ==
    IF p > Len(fieldOrderConfig[c]) THEN <<Blank>>
    ELSE LET f == fieldOrderConfig[c][p] IN
         (IF f \in blankLineConfig THEN <<Blank>> ELSE <<>>)
         \o FieldBlock(c, f, variant) \o CompleteLines(c, p + 1, variant)

Variants == {"plain", "metadata", "oddkey", "embedded", "nested", "spaced"}

CompleteTexts == {CompleteLines(c, 1, v) : c \in ValidClasses, v \in Variants}

ExampleTexts ==
    {ReadmeExample, TestValidExample, TestMissingVersion, TestInvalidClass,
     ExampleCwl, ErrorExampleHead}

Texts == ExampleTexts \cup OddTexts \cup OrderTexts \cup ShapeTexts \cup CompleteTexts

\* no direct call of findFieldPosition has been made
NoArgs == [fieldName |-> "", parentContext |-> ""]
\* { line: 0, character: 0 }
Origin == [line |-> 0, character |-> 0]

Init ==
    /\ content \in Texts
    /\ pc = "load"
    /\ parsed = NotLoaded
    /\ errors = <<>>
    /\ exc = NoExc
    /\ ran = <<>>
    /\ lastIndex = -1
    /\ foPos = 1
    /\ foErrors = <<>>
    /\ args = NoArgs
    /\ pos = Origin

Spec == Init /\ [][Next]_vars

----------------------------------------------------------------------------
(* Direct calls of findFieldPosition and checkBlankLines, on any text *)

\* the longest text of a direct call, in lines
MaxLines == 4

\* the lines such a text is made of: a blank line, a top-level line that
\* holds the parent context, and fields at top level and nested
TextLines ==
    {Blank, F(0, "steps", ""), F(0, "inputs", "{}"), F(2, "inputs", "{}"),
     F(0, "class", "Workflow"), F(2, "class", "x"), F(0, "$namespaces", "{}")}

LineTexts == UNION {[1..n -> TextLines] : n \in 1..MaxLines}

\* the field names and parent contexts findFieldPosition is called with
FieldNames == {"inputs", "class", "$namespaces", "a(b"}
ParentContexts == {"", "steps"}

TextInit ==
    /\ content \in LineTexts
    /\ pc = "call"
    /\ parsed = NotLoaded
    /\ errors = <<>>
    /\ exc = NoExc
    /\ ran = <<>>
    /\ lastIndex = -1
    /\ foPos = 1
    /\ foErrors = <<>>
    /\ args = NoArgs
    /\ pos = Origin

\* findFieldPosition(content, fieldName, parentContext); new RegExp throws
\* on a name that is no valid pattern
CallFindFieldPosition ==
    /\ pc = "call"
    /\ \E fieldName \in FieldNames, parentContext \in ParentContexts :
          /\ args' = [fieldName |-> fieldName, parentContext |-> parentContext]
          /\ IF fieldName \in RegexInvalidNames
             THEN /\ pc' = "threw"
                  /\ exc' = Exc("SyntaxError", "Invalid regular expression")
                  /\ pos' = pos
             ELSE /\ pc' = "located"
                  /\ exc' = exc
                  /\ pos' = findFieldPosition(content, fieldName, parentContext)
    /\ UNCHANGED <<content, parsed, errors, ran, lastIndex, foPos, foErrors>>

\* checkBlankLines(doc, content): the rule never reads doc
CallCheckBlankLines ==
    /\ pc = "call"
    /\ pc' = "checked"
    /\ errors' = checkBlankLines(Undefined, content).errs
    /\ UNCHANGED <<content, parsed, exc, ran, lastIndex, foPos, foErrors, args, pos>>

TextNext == CallFindFieldPosition \/ CallCheckBlankLines

TextSpec == TextInit /\ [][TextNext]_vars

----------------------------------------------------------------------------
(* Properties *)

Done == pc = "done"

\* the number of diagnostics with message m
Count(errs, m) == Cardinality({i \in 1..Len(errs) : errs[i].message = m})

Has(errs, m) == Count(errs, m) > 0

IsParseErrorDiag(d) == d.message[1] = "YAML parsing error: "

IsDiag(d) ==
    /\ DOMAIN d = {"message", "line", "character"}
    /\ Len(d.message) >= 1
    /\ d.line \in Nat
    /\ d.character \in Nat

\* the document is a mapping
IsMapping(doc) == doc.t = "map"

\* the document's class is the string c
ClassIs(doc, c) == IsMapping(doc) /\ StrictEqualsString(GetProp(doc, "class"), c)

\* C1: for every text, lintCWLContent returns a list of diagnostics and no
\* exception crosses the call: control never leaves the function by a throw,
\* an exception that was raised is handled by the catch block, and what is
\* returned is a list of diagnostics with non-negative positions.
C1_NeverThrows ==
    /\ pc # "escaped"
    /\ exc.kind # "none" => pc \in {"catch", "done"}
    /\ Done => \A i \in 1..Len(errors) : IsDiag(errors[i])

\* a rule threw on a parsed document and the call still returned
C1_Witness == Done /\ parsed.ok /\ exc.kind = "TypeError" /\ Len(errors) >= 1

\* C2: when the YAML parse fails no rule runs and the result is exactly one
\* diagnostic, whose message starts with "YAML parsing error: " and whose
\* position is the parser's mark when there is one, and line 0, character 0
\* otherwise.
C2_ParseFailure ==
    ~parsed.ok =>
        /\ ran = <<>>
        /\ Done =>
            /\ Len(errors) = 1
            /\ IsParseErrorDiag(errors[1])
            /\ parsed.hasMark =>
                 errors[1].line = parsed.line /\ errors[1].character = parsed.column
            /\ ~parsed.hasMark =>
                 errors[1].line = 0 /\ errors[1].character = 0

\* a parse failure with a mark off the origin has been reported
C2_Witness ==
    /\ Done /\ ~parsed.ok /\ parsed.hasMark
    /\ parsed.line > 0 /\ parsed.column > parsed.line
    /\ Len(errors) = 1

\* C3: when the text parses, all six rules run to completion and the result
\* is the concatenation of their diagnostics in registration order, with no
\* "YAML parsing error" diagnostic.
C3_AllRulesRun ==
    (Done /\ parsed.ok) =>
        /\ ran = RuleOrder
        /\ \A i \in 1..Len(errors) : ~IsParseErrorDiag(errors[i])
        /\ errors = checkVersion(parsed.doc, content).errs
                    \o checkClass(parsed.doc, content).errs
                    \o checkInputs(parsed.doc, content).errs
                    \o foErrors
                    \o checkBlankLines(parsed.doc, content).errs
                    \o checkWorkflowInputMetadata(parsed.doc, content).errs

\* the document has no cwlVersion key
MissingVersion(doc) == ~(IsMapping(doc) /\ HasKey(doc.kids, "cwlVersion"))

\* C4: for every document missing cwlVersion the result holds exactly one
\* diagnostic "Missing cwlVersion field".
C4_MissingVersion ==
    (Done /\ parsed.ok /\ MissingVersion(parsed.doc)) =>
        Count(errors, <<"Missing cwlVersion field">>) = 1

\* C5: for a mapping document, an absent class key is reported as "Missing
\* class field", a class value outside {Workflow, CommandLineTool,
\* ExpressionTool} as "Invalid class value. ...", and a value inside the set
\* yields neither message.
C5_ClassRule ==
    (Done /\ parsed.ok /\ IsMapping(parsed.doc)) =>
        LET doc == parsed.doc
            present == HasKey(doc.kids, "class")
            inside == GetProp(doc, "class").t = "str"
                      /\ GetProp(doc, "class").v \in {"Workflow", "CommandLineTool", "ExpressionTool"}
            invalid == <<"Invalid class value. Must be one of: Workflow, CommandLineTool, ExpressionTool">>
        IN  /\ ~present => Has(errors, <<"Missing class field">>)
            /\ (present /\ ~inside) => Has(errors, invalid)
            /\ (present /\ inside) =>
                   ~Has(errors, <<"Missing class field">>) /\ ~Has(errors, invalid)

\* C6: the inputs-shape rule emits "Inputs must be an object or array"
\* exactly when the document has an inputs key whose value is a string, a
\* number or a boolean.
C6_InputsShape ==
    (Done /\ parsed.ok /\ IsMapping(parsed.doc)) =>
        (Has(errors, <<"Inputs must be an object or array">>)
         <=> (/\ HasKey(parsed.doc.kids, "inputs")
              /\ GetProp(parsed.doc, "inputs").t \in {"str", "num", "bool"}))

Max(S) == CHOOSE x \in S : \A y \in S : x >= y

\* the canonical list of the document's class, and the canonical index
\* (0-based, -1 for a key outside the list) of its k-th top-level key
Canonical(doc) == fieldOrderConfig[GetProp(doc, "class").v]
KeyIndex(doc, k) == IndexOf(Canonical(doc), ObjectKeys(doc)[k])

\* the greatest canonical index among the keys before the k-th, -1 if none
IndexBefore(doc, k) == Max({-1} \cup {KeyIndex(doc, j) : j \in 1..(k - 1)})

\* the k-th key is canonical and stands after a key of greater canonical index
Misplaced(doc, k) == KeyIndex(doc, k) # -1 /\ KeyIndex(doc, k) < IndexBefore(doc, k)

\* the messages the field-order rule owes for the keys before the k-th
RECURSIVE OwedMessages(_, _)
OwedMessages(doc, k) ==
    IF k <= 1 THEN <<>>
    ELSE OwedMessages(doc, k - 1)
         \o (IF Misplaced(doc, k - 1)
             THEN << <<"Field '", ObjectKeys(doc)[k - 1],
                       "' is out of order. It should appear before '",
                       Canonical(doc)[IndexBefore(doc, k - 1) + 1], "'.">> >>
             ELSE <<>>)

Messages(errs) == [i \in 1..Len(errs) |-> errs[i].message]

RecognizedClass(doc) ==
    IsMapping(doc) /\ GetProp(doc, "class").t = "str"
    /\ GetProp(doc, "class").v \in {"Workflow", "CommandLineTool", "ExpressionTool"}

\* C7: for a document of a recognized class the field-order rule is one
\* forward pass over the top-level keys: before each key lastIndex is the
\* greatest canonical index seen so far (so it starts at -1, never decreases,
\* and neither a key outside the list nor a flagged key changes it), a key is
\* flagged exactly when its canonical index is below it, with the message
\* naming the canonical field at lastIndex, and the rule returns exactly those
\* diagnostics.  CommandLineTool with keys cwlVersion, class, outputs, inputs
\* yields one diagnostic, for inputs, naming outputs.
C7_FieldOrderPass ==
    (parsed.ok /\ RecognizedClass(parsed.doc)) =>
        /\ pc = "fieldOrderLoop" =>
              /\ foPos \in 1..(Len(ObjectKeys(parsed.doc)) + 1)
              /\ lastIndex = IndexBefore(parsed.doc, foPos)
              /\ Messages(foErrors) = OwedMessages(parsed.doc, foPos)
        /\ "checkFieldOrder" \in {ran[i] : i \in 1..Len(ran)} =>
              /\ Messages(foErrors) =
                    OwedMessages(parsed.doc, Len(ObjectKeys(parsed.doc)) + 1)
              /\ SelectSeq(errors, LAMBDA d : d.message[1] = "Field '") = foErrors
              /\ (/\ ObjectKeys(parsed.doc) = <<"cwlVersion", "class", "outputs", "inputs">>
                  /\ GetProp(parsed.doc, "class").v = "CommandLineTool")
                 => Messages(foErrors) =
                       << <<"Field '", "inputs",
                            "' is out of order. It should appear before '",
                            "outputs", "'.">> >>

\* the pass over cwlVersion, class, outputs, inputs has returned
C7_Witness ==
    /\ pc = "checkBlankLines"
    /\ parsed.ok /\ RecognizedClass(parsed.doc)
    /\ ObjectKeys(parsed.doc) = <<"cwlVersion", "class", "outputs", "inputs">>
    /\ GetProp(parsed.doc, "class").v = "CommandLineTool"
    /\ Len(foErrors) = 1

\* the top-level keys of doc that are in its class's canonical list
CanonicalKeys(doc) ==
    SelectSeq(ObjectKeys(doc), LAMBDA k : IndexOf(Canonical(doc), k) # -1)

\* a valid document with every canonical field of its class in canonical
\* order, a blank line before each top-level field that requires one, and
\* (for a Workflow) label and doc on every mapping-shaped input
ValidComplete(lines, doc) ==
    /\ RecognizedClass(doc)
    /\ Truthy(GetProp(doc, "cwlVersion"))
    /\ CanonicalKeys(doc) = Canonical(doc)
    /\ GetProp(doc, "inputs").t \in {"map", "seq"}
    /\ \A i \in 2..Len(lines) :
          (lines[i].kind = "field" /\ lines[i].indent = 0
           /\ lines[i].key \in blankLineConfig) => lines[i - 1].kind = "blank"
    /\ GetProp(doc, "class").v = "Workflow" =>
          \A i \in 1..Len(GetProp(doc, "inputs").kids) :
             LET e == GetProp(doc, "inputs").kids[i].val IN
             e.t = "map" => HasKey(e.kids, "label") /\ HasKey(e.kids, "doc")

\* C8: a valid document with every canonical field in canonical order, the
\* required blank lines and complete Workflow input metadata gets an empty
\* result, whatever is nested under its top-level fields.
C8_ValidDocumentClean ==
    (Done /\ parsed.ok /\ ValidComplete(content, parsed.doc)) => errors = <<>>

\* C9: the README's example and the text of the test 'Should pass valid CWL
\* file' get an empty result.
C9_ExamplesClean ==
    (Done /\ content \in {ReadmeExample, TestValidExample}) => errors = <<>>

\* the diagnostics about input key
InputDiags(errs, key) ==
    SelectSeq(errs, LAMBDA d : Len(d.message) = 5 /\ d.message[1] = "Input '"
                               /\ d.message[2] = key)

\* C10: in a Workflow with mapping-shaped inputs, an entry that is a mapping
\* without label and doc gets exactly the two diagnostics "Input '<key>' is
\* missing required 'label' field." and "... 'doc' field.", however it is
\* laid out, and an entry that is no mapping gets none.
C10_InputMetadata ==
    (Done /\ parsed.ok /\ ClassIs(parsed.doc, "Workflow")
     /\ GetProp(parsed.doc, "inputs").t = "map") =>
        \A i \in 1..Len(GetProp(parsed.doc, "inputs").kids) :
           LET e == GetProp(parsed.doc, "inputs").kids[i] IN
           /\ (e.val.t = "map" /\ ~HasKey(e.val.kids, "label") /\ ~HasKey(e.val.kids, "doc"))
              => Messages(InputDiags(errors, e.k)) =
                    << <<"Input '", e.k, "' is missing required '", "label", "' field.">>,
                       <<"Input '", e.k, "' is missing required '", "doc", "' field.">> >>
           /\ e.val.t # "map" => InputDiags(errors, e.k) = <<>>

\* the diagnostics of errs anchored at line l (0-based)
AnchoredAt(errs, l) == {k \in 1..Len(errs) : errs[k].line = l}

\* C11: after checkBlankLines, every line i >= 2 (0-based) that matches the
\* field pattern and whose two preceding lines are whitespace-only has the
\* diagnostic "More than one blank line before field '<field>'." anchored at
\* line i-1, and no line carries more than one blank-line diagnostic.
C11_MoreThanOneBlank ==
    pc = "checked" =>
        /\ \A n \in 3..Len(content) :
              (FieldPatternMatch(content[n]) /\ IsBlank(content[n - 1])
               /\ IsBlank(content[n - 2]))
              => \E k \in AnchoredAt(errors, (n - 1) - 1) :
                    errors[k].message = MoreThanOneMessage(content[n].key)
        /\ \A l \in 0..Len(content) : Cardinality(AnchoredAt(errors, l)) <= 1

\* line n (1-based) of lines carries a "Missing blank line" diagnostic
MissingFlagged(errs, lines, n) ==
    \E k \in AnchoredAt(errs, n - 1) :
        errs[k].message = MissingBlankMessage(lines[n].key)

\* a field at top level: no leading whitespace
TopLevelField(line) == FieldPatternMatch(line) /\ line.indent = 0

\* C12: after checkBlankLines, "Missing blank line before field '<field>'."
\* is anchored at line i exactly for the lines i >= 1 that hold an unindented
\* field of the Blank-Line-Required Set whose preceding line is not blank; an
\* indented key with one of those names is not flagged.
C12_MissingBlankTopLevel ==
    pc = "checked" =>
        \A n \in 1..Len(content) :
            MissingFlagged(errors, content, n)
            <=> (/\ n >= 2
                 /\ TopLevelField(content[n])
                 /\ content[n].key \in blankLineConfig
                 /\ ~IsBlank(content[n - 1]))

\* the line consists of optional leading whitespace, the name taken
\* literally, and a colon
HoldsField(line, name) ==
    line.kind = "field" /\ ~line.quoted /\ line.key = name

\* scanning backward from line n (1-based), a line containing ctx is reached
\* before a line with no leading whitespace
Qualifies(lines, n, ctx) ==
    \E j \in 1..(n - 1) :
        /\ LineIncludes(lines[j], ctx)
        /\ \A k \in (j + 1)..(n - 1) : ~StartsNonSpace(lines[k])

\* the lines (1-based) that qualify for name under ctx
Candidates(lines, name, ctx) ==
    {n \in 1..Len(lines) :
        HoldsField(lines[n], name) /\ (ctx # "" => Qualifies(lines, n, ctx))}

\* C13: for any text and any field name taken literally ($namespaces too),
\* findFieldPosition never fails and returns the 0-based index of the first
\* line made of optional whitespace, the name and a colon (under a
\* parentContext: the first such line from which the backward scan reaches a
\* line containing parentContext before an unindented line) with the column
\* of the name, or {line: 0, character: 0} when no line qualifies; line and
\* character are never negative.
C13_FindFieldPosition ==
    pc \in {"located", "threw"} =>
        LET cands == Candidates(content, args.fieldName, args.parentContext)
        IN  /\ pc = "located"
            /\ pos = IF cands = {} THEN Origin
                     ELSE [line |-> Min(cands) - 1,
                           character |-> content[Min(cands)].indent]
            /\ pos.line >= 0
            /\ pos.character >= 0

====
